---- MODULE Spec2Model ----
(***************************************************************************)
(* Time Hacked (src/script.js): the synchronized clock (TimeSyncManager),  *)
(* the calendar projection (TimezoneManager), the cue scheduler            *)
(* (VisualCueManager) and the frame loop (DisplayManager), as one state    *)
(* machine.  Instants are milliseconds; the browser's event loop runs one  *)
(* handler at a time, so every handler is one atomic action, and time      *)
(* passes between handlers in steps of TickMs.                             *)
(***************************************************************************)
EXTENDS Integers, Sequences, FiniteSets, TLC

----------------------------------------------------------------------------
(* Bounds of the model *)

\* granularity of the passage of time
TickMs == 1000
\* performance.now() never exceeds this in the explored runs
MaxPerfMs == 70000
\* a fetch that answers at all answers within this delay
MaxLatencyMs == 1000
\* the frame loop, while it runs, leaves at most this much between two frames
MaxFrameGapMs == 2000
\* sync() calls that can be in flight together
MaxCycles == 2
\* attempts of one sync cycle that are explored
MaxTries == 4
\* performance.now() never exceeds this in the runs with overlapping syncs
MaxOverlapPerfMs == 124000
\* granularity of the passage of time in the runs that follow the flashes
FlashTickMs == 10
\* performance.now() never exceeds this in the runs that follow the flashes
MaxFlashPerfMs == 2000
\* flash sequences that can run together
MaxFlashes == 4
\* Date.now() when performance.now() is 0: 23:58:59.000 of the first day
StartWallMs == 86339000
\* the local wall clock runs this much ahead of the authority's UTC
WallAheadMs == 3000

----------------------------------------------------------------------------
(* Constants of the program *)

MAX_SYNC_ATTEMPTS == 3
SYNC_INTERVAL_MS == 60000
RETRY_DELAY_MS == 2000
HACK_HOLD_MS == 5000
FLASH_DURATION_MS == 150
FLASH_INTERVAL_MS == 160
\* new Date(undefined).getTime(): an integer no instant of the model takes
NaN == -1

\* TIME_APIS, by rank
TIME_APIS == <<"Etc/UTC", "UTC">>

\* what one endpoint can do to one request
Outcomes == {"neterr", "notok", "badbody", "nofield", "good"}

\* the endpoint answered: status OK and a body that is JSON
Answered(o) == o \in {"nofield", "good"}

\* the zones of the selector that the model explores, with their offsets
Zones == {"UTC", "Asia/Kathmandu"}

ZoneOffsetMin(tz) == IF tz = "Asia/Kathmandu" THEN 345 ELSE 0

VARIABLES
    perf,                  \* performance.now()
    hourCycle,             \* how the host's Intl formats hour 0 under hour12:false
    authorityUtcMs, perfNowAtSync, driftMs, isSynced, syncAttempts,
    cyc,                   \* the sync() calls in flight
    syncTimer,             \* the setInterval of startBackgroundSync
    appRunning,            \* initApp is past `await TimeSyncManager.init()`
    loopAlive,             \* update() still re-arms requestAnimationFrame
    selectedTimezone,
    lastFlashSecond, lastCountdownSecond, countdownMessageState,
    hackMessageTimeout,    \* the variable is non-null
    hackTimer,             \* the setTimeout of the HACK hold
    upcomingText,          \* DOM.upcomingText.textContent
    sinceFrame,            \* the time since the last frame
    obs,                   \* what the last evaluated frame saw and did
    run,                   \* how far the frames have followed 50,51,...,59,0
    nowLog,                \* the last two values getCurrentUtcMs returned
    res,                   \* how the last sync attempt ended
    allFailed,             \* no endpoint has answered a request so far
    flash                  \* the flash overlay and the flash sequences running

vars == <<perf, hourCycle, authorityUtcMs, perfNowAtSync, driftMs, isSynced,
          syncAttempts, cyc, syncTimer, appRunning, loopAlive,
          selectedTimezone, lastFlashSecond, lastCountdownSecond,
          countdownMessageState, hackMessageTimeout, hackTimer, upcomingText,
          sinceFrame, obs, run, nowLog, res, allFailed, flash>>

syncVars == <<authorityUtcMs, perfNowAtSync, driftMs, isSynced, syncAttempts>>
cueVars == <<lastFlashSecond, lastCountdownSecond, countdownMessageState,
             hackMessageTimeout, hackTimer, upcomingText>>

----------------------------------------------------------------------------
(* The clocks *)

\* Date.now()
DateNow == StartWallMs + perf

\* the instant a reachable endpoint reports
AuthorityNow == DateNow - WallAheadMs

\* JavaScript's >= on numbers: false as soon as one side is NaN
JsGeq(x, y) == x # NaN /\ y # NaN /\ x >= y

\* the time elapsed since the sync left out
GetCurrentUtcMsNoElapsed ==
    IF ~isSynced THEN DateNow
    ELSE IF authorityUtcMs = NaN THEN NaN
    ELSE authorityUtcMs + driftMs

\* getCurrentUtcMs
GetCurrentUtcMs ==
    IF ~isSynced THEN DateNow
    ELSE IF authorityUtcMs = NaN THEN NaN
    ELSE authorityUtcMs + (perf - perfNowAtSync) + driftMs

\* Date.prototype.getUTCSeconds of a valid instant
UtcSeconds(ms) == (ms \div 1000) % 60

----------------------------------------------------------------------------
(* TimezoneManager *)

\* getTimeComponentsInTimezone of a valid instant: Intl's formatToParts with
\* hour12:false gives hour 0 as "24" on a host whose hour cycle is h24
GetTimeComponentsInTimezone(ms, tz, hc) ==
    LET local == ms + ZoneOffsetMin(tz) * 60000
        h == (local \div 3600000) % 24
    IN [hour   |-> IF h = 0 /\ hc = "h24" THEN 24 ELSE h,
        minute |-> (local \div 60000) % 60,
        second |-> (local \div 1000) % 60]

\* getNextMinuteInTimezone
GetNextMinuteInTimezone(ms, tz, hc) ==
    LET components == GetTimeComponentsInTimezone(ms + 60000, tz, hc)
    IN [hour |-> components.hour, minute |-> components.minute]

----------------------------------------------------------------------------
(* The announcement line *)

Text(k, h, m) == [k |-> k, h |-> h, m |-> m]
HtmlText == Text("html", 0, 0)
StandbyText == Text("standby", 0, 0)
DigitText(n) == Text("digit", n, 0)
HackText(h, m) == Text("hack", h, m)
OneMinuteText(h, m) == Text("oneMinute", h, m)
ThirtyText == Text("thirty", 0, 0)

\* the text updateUpcomingText computes when it is not suppressed
DefaultText(ms, tz, hc) ==
    LET components == GetTimeComponentsInTimezone(ms, tz, hc)
        secondsToMinute == 60 - components.second
        nextMinute == GetNextMinuteInTimezone(ms, tz, hc)
    IN IF secondsToMinute > 30
       THEN OneMinuteText(nextMinute.hour, nextMinute.minute)
       ELSE ThirtyText

\* the suppression limited to the HACK stage
IsInCountdownModeHackOnly(st) == st = "hack"

\* isInCountdownMode
IsInCountdownMode(st) == st # "null"

\* updateUpcomingText on a valid instant: the text afterwards
UpdateUpcomingText(st, txt, ms, tz, hc) ==
    IF IsInCountdownMode(st) THEN txt ELSE DefaultText(ms, tz, hc)

----------------------------------------------------------------------------
(* VisualCueManager *)

NoTimer == [on |-> FALSE, left |-> 0]

\* the cue manager's variables as one record, with what one evaluation emits:
\* f1 single-pulse flashes, f3 three-pulse flashes, wrote: the line was written
Cue == [lfs |-> lastFlashSecond, lcs |-> lastCountdownSecond,
        st |-> countdownMessageState, hmt |-> hackMessageTimeout,
        tm |-> hackTimer, txt |-> upcomingText,
        f1 |-> 0, f3 |-> 0, wrote |-> FALSE]

\* a flash every ten seconds
ShouldFlashEveryTen(seconds) == seconds % 10 = 0

\* shouldFlash
ShouldFlash(seconds) == seconds = 0 \/ seconds = 30

\* the hold timer left out
HoldTimerNotSet == NoTimer

\* setTimeout(..., 5000) of the HACK stage
HoldTimer == [on |-> TRUE, left |-> HACK_HOLD_MS]

\* a slip in the digit: one less than the seconds that remain
CountNumOneLess(seconds) == 59 - seconds

\* countNum of updateCountdown
CountNum(seconds) == 60 - seconds

\* the guard dropped: every evaluation counts as a new second
SecondUnchangedNever(c, seconds) == FALSE

\* the guard `seconds === lastCountdownSecond` of updateCountdown
SecondUnchanged(c, seconds) == seconds = c.lcs

\* second 0 left out of the window
IsCountdownPeriodNoZero(seconds) == seconds >= 50

\* isCountdownPeriod of updateCountdown
IsCountdownPeriod(seconds) == seconds >= 50 \/ seconds = 0

\* the HACK stage not spared outside the window
ClearsStageAny(st) == st # "null"

\* the stages that updateCountdown clears outside the window
ClearsStage(st) == st # "null" /\ st # "hack"

\* updateCountdown(seconds), ms being the instant it reads at second 0
UpdateCountdown(c, seconds, ms, tz, hc) ==
    IF ~IsCountdownPeriod(seconds) THEN
        IF ClearsStage(c.st)
        THEN [c EXCEPT !.st = "null",
                       !.tm = IF c.hmt THEN NoTimer ELSE @,
                       !.hmt = FALSE,
                       !.lcs = -1]
        ELSE [c EXCEPT !.lcs = -1]
    ELSE IF SecondUnchanged(c, seconds) THEN c
    ELSE LET d == [c EXCEPT !.lcs = seconds, !.f1 = @ + 1] IN
         IF seconds >= 50 /\ seconds <= 54
         THEN [d EXCEPT !.txt = StandbyText, !.st = "standby", !.wrote = TRUE]
         ELSE IF seconds >= 55 /\ seconds <= 59
         THEN [d EXCEPT !.txt = DigitText(CountNum(seconds)), !.st = "countdown",
                        !.wrote = TRUE]
         ELSE LET components == GetTimeComponentsInTimezone(ms, tz, hc) IN
              [d EXCEPT !.txt = HackText(components.hour, components.minute),
                        !.st = "hack", !.wrote = TRUE, !.hmt = TRUE,
                        !.tm = HoldTimer]

\* the edge detection dropped: a flash on every frame of second 0 or 30
FlashCuesEveryFrame(c, utcSeconds) ==
    IF ShouldFlash(utcSeconds)
    THEN [c EXCEPT !.f3 = @ + 1, !.lfs = utcSeconds]
    ELSE [c EXCEPT !.lfs = -1]

\* the flash half of processVisualCues
FlashCues(c, utcSeconds) ==
    LET d == IF ShouldFlash(utcSeconds) /\ utcSeconds # c.lfs
             THEN [c EXCEPT !.f3 = @ + 1, !.lfs = utcSeconds]
             ELSE c
    IN IF ~ShouldFlash(utcSeconds) THEN [d EXCEPT !.lfs = -1] ELSE d

\* processVisualCues on a valid instant
ProcessVisualCues(c, ms, tz, hc) ==
    FlashCues(UpdateCountdown(c, UtcSeconds(ms), ms, tz, hc), UtcSeconds(ms))

SetCue(c) ==
    /\ lastFlashSecond' = c.lfs
    /\ lastCountdownSecond' = c.lcs
    /\ countdownMessageState' = c.st
    /\ hackMessageTimeout' = c.hmt
    /\ hackTimer' = c.tm
    /\ upcomingText' = c.txt

----------------------------------------------------------------------------
(* Observation *)

\* a read of getCurrentUtcMs: b is the value returned, pair says that there
\* was a read before it and no sync wrote the anchor between the two, and ok
\* that the value is then >= the one before
Read(v) ==
    LET pair == nowLog.have /\ ~nowLog.synced IN
    [b |-> v, have |-> TRUE, synced |-> FALSE, pair |-> pair,
     ok |-> pair => JsGeq(v, nowLog.b)]

\* a sync wrote the anchor
Anchored == [nowLog EXCEPT !.synced = TRUE]

CountdownRun == <<50, 51, 52, 53, 54, 55, 56, 57, 58, 59, 0>>

\* the position in CountdownRun after a frame that saw second s
RunAfter(s) ==
    IF run >= 1 /\ CountdownRun[run] = s THEN run
    ELSE IF run >= 1 /\ run < Len(CountdownRun) /\ CountdownRun[run + 1] = s
    THEN run + 1
    ELSE IF s = CountdownRun[1] THEN 1
    ELSE 0

----------------------------------------------------------------------------
(* TimeSyncManager *)

\* a sync() call: where it is, the rank of the endpoint its fetch is at, the
\* time waited or left to wait, the number of its attempt, whether it is the
\* call of init, and how many endpoints did not answer in the present fetch
IdleCycle == [pc |-> "idle", api |-> 0, wait |-> 0, tries |-> 0, init |-> FALSE,
              failed |-> 0]

\* sync() up to its await: syncAttempts++ and the first fetch
Started(tries, init) ==
    [pc |-> "fetch", api |-> 1, wait |-> 0, tries |-> tries, init |-> init,
     failed |-> 0]

\* response.json() awaited outside the try block: an unreadable body escapes
EndpointStepJsonUncaught(o) ==
    CASE o = "neterr"  -> "next"
      [] o = "notok"   -> "next"
      [] o = "badbody" -> "throw"
      [] o = "nofield" -> "return"
      [] o = "good"    -> "return"

\* the loop not left on an answer: the next endpoint is asked all the same
EndpointStepGoesOn(o) ==
    CASE o = "neterr"  -> "next"
      [] o = "notok"   -> "next"
      [] o = "badbody" -> "next"
      [] o = "nofield" -> "return"
      [] o = "good"    -> "next"

\* one turn of the loop of fetchAuthorityTime on an endpoint's outcome:
\* "return" the parsed value, go to the "next" endpoint, or "throw"
EndpointStep(o) ==
    CASE o = "neterr"  -> "next"      \* fetch rejects: caught
      [] o = "notok"   -> "next"      \* response.ok is false
      [] o = "badbody" -> "next"      \* response.json() rejects: caught
      [] o = "nofield" -> "return"    \* parser: new Date(undefined).getTime()
      [] o = "good"    -> "return"

\* the fallback forgotten the clock: the instant the page was loaded
SystemTimeFallbackStale == StartWallMs

\* `return Date.now()` at the end of fetchAuthorityTime
SystemTimeFallback == DateNow

\* the anchor of the sync before kept
AnchorPerfKept == perfNowAtSync

\* performance.now() as sync() reads it for perfNowAtSync
AnchorPerf == perf

\* api.parser(data)
Parser(o) == IF o = "good" THEN AuthorityNow ELSE NaN

\* how a sync attempt ended: what sync() did (ret: it returned "true" or
\* "false", or went to "retry"), whether fetchAuthorityTime fell back to the
\* local clock or threw, the value it returned, Date.now() and
\* performance.now() at that moment, the number of the attempt in its cycle,
\* whether the attempt changed the snapshot or the flag, whether the value is
\* earlier than what getCurrentUtcMs gave just before, whether another sync()
\* call was in flight, the rank of the endpoint whose answer was returned (0:
\* none) and the number of endpoints that did not answer
NoResult == [ret |-> "none", fallback |-> FALSE, fetchThrew |-> FALSE,
             value |-> 0, wall |-> 0, at |-> 0, tries |-> 0, changed |-> FALSE,
             back |-> FALSE, overlap |-> FALSE, src |-> 0, failed |-> 0]

\* what follows the end of the sync() call of cycle c
Returned(c) ==
    /\ cyc' = [cyc EXCEPT ![c] = IdleCycle]
    /\ IF cyc[c].init
       THEN /\ syncTimer' = [on |-> TRUE, left |-> SYNC_INTERVAL_MS]
            /\ appRunning' = TRUE
       ELSE UNCHANGED <<syncTimer, appRunning>>

\* the catch branch of sync(), sa and synced being syncAttempts and isSynced
\* when it is entered
Caught(c, sa, synced) ==
    IF sa < MAX_SYNC_ATTEMPTS
    THEN /\ cyc' = [cyc EXCEPT ![c].pc = "delay", ![c].wait = RETRY_DELAY_MS]
         /\ UNCHANGED <<syncTimer, appRunning>>
         /\ isSynced' = synced
    ELSE /\ isSynced' = FALSE
         /\ Returned(c)

\* the fetch of cycle c settles with outcome o; fetchAuthorityTime goes on to
\* the next endpoint or returns, and then sync() runs to its end or its delay
Settle(c, o) ==
    LET step == EndpointStep(o)
        last == cyc[c].api = Len(TIME_APIS)
        failed == cyc[c].failed + (IF Answered(o) THEN 0 ELSE 1)
        overlap == \E d \in DOMAIN cyc : d # c /\ cyc[d].pc # "idle"
    IN
    /\ IF step = "next" /\ ~last
       THEN /\ cyc' = [cyc EXCEPT ![c].pc = "fetch", ![c].api = @ + 1,
                                  ![c].wait = 0, ![c].failed = failed]
            /\ UNCHANGED <<syncVars, syncTimer, appRunning, nowLog, res>>
            /\ allFailed' = allFailed
       ELSE IF step = "throw"
       THEN \* fetchAuthorityTime rejects: nothing of the snapshot is written
            /\ UNCHANGED <<authorityUtcMs, perfNowAtSync, driftMs, syncAttempts,
                           nowLog>>
            /\ Caught(c, syncAttempts, isSynced)
            /\ allFailed' = allFailed
            /\ res' = [ret |-> IF syncAttempts < MAX_SYNC_ATTEMPTS
                               THEN "retry" ELSE "false",
                       fallback |-> FALSE, fetchThrew |-> TRUE, value |-> 0,
                       wall |-> DateNow, at |-> perf, tries |-> cyc[c].tries,
                       changed |-> syncAttempts >= MAX_SYNC_ATTEMPTS /\ isSynced,
                       back |-> FALSE, overlap |-> overlap, src |-> 0,
                       failed |-> failed]
       ELSE LET fallback == step = "next"
                fetchedTimeMs == IF fallback THEN SystemTimeFallback ELSE Parser(o)
                \* new Date(NaN).toISOString() throws a RangeError
                logThrows == fetchedTimeMs = NaN
            IN
            /\ authorityUtcMs' = fetchedTimeMs
            /\ perfNowAtSync' = AnchorPerf
            /\ driftMs' = 0
            /\ syncAttempts' = 0
            /\ nowLog' = Anchored
            /\ allFailed' = (allFailed /\ fallback)
            /\ IF logThrows
               THEN Caught(c, 0, TRUE)
               ELSE isSynced' = TRUE /\ Returned(c)
            /\ res' = [ret |-> IF ~logThrows THEN "true"
                               ELSE IF 0 < MAX_SYNC_ATTEMPTS THEN "retry"
                               ELSE "false",
                       fallback |-> fallback, fetchThrew |-> FALSE,
                       value |-> fetchedTimeMs, wall |-> DateNow, at |-> perf,
                       tries |-> cyc[c].tries,
                       changed |-> <<fetchedTimeMs, AnchorPerf, 0, TRUE>> #
                                   <<authorityUtcMs, perfNowAtSync, driftMs,
                                     isSynced>>,
                       back |-> /\ fetchedTimeMs # NaN
                                /\ GetCurrentUtcMs # NaN
                                /\ fetchedTimeMs < GetCurrentUtcMs,
                       overlap |-> overlap,
                       src |-> IF fallback THEN 0 ELSE cyc[c].api,
                       failed |-> failed]
    /\ UNCHANGED <<perf, hourCycle, flash, loopAlive, selectedTimezone, cueVars, obs,
                   run, sinceFrame>>

\* an endpoint answers cycle c with outcome o within MaxLatencyMs
SyncRespond(c, o) ==
    /\ cyc[c].pc = "fetch"
    /\ Settle(c, o)

\* an endpoint answers cycle c later than that, while another sync() call is
\* in flight
LateRespond(c, o) ==
    /\ cyc[c].pc = "hung"
    /\ \E d \in DOMAIN cyc : d # c /\ cyc[d].pc # "idle"
    /\ Settle(c, o)

\* a fetch of cycle c does not settle within MaxLatencyMs
FetchHang(c) ==
    /\ cyc[c].pc = "fetch"
    /\ cyc' = [cyc EXCEPT ![c].pc = "hung", ![c].wait = 0]
    /\ UNCHANGED <<perf, hourCycle, flash, syncVars, syncTimer, appRunning, loopAlive,
                   selectedTimezone, cueVars, obs, run, nowLog, res,
                   sinceFrame, allFailed>>

\* the retry delay of cycle c is over: `return sync()`
RetryFire(c) ==
    /\ cyc[c].pc = "delay"
    /\ cyc[c].wait = 0
    /\ cyc[c].tries < MaxTries
    /\ syncAttempts' = syncAttempts + 1
    /\ cyc' = [cyc EXCEPT ![c] = Started(cyc[c].tries + 1, cyc[c].init)]
    /\ UNCHANGED <<perf, hourCycle, flash, authorityUtcMs, perfNowAtSync, driftMs,
                   isSynced, syncTimer, appRunning, loopAlive,
                   selectedTimezone, cueVars, obs, run, nowLog, res,
                   sinceFrame, allFailed>>

FreeSlots == {c \in DOMAIN cyc : cyc[c].pc = "idle"}

\* a timer that fires once: setTimeout in the place of setInterval
NotRearmed == NoTimer

\* setInterval arms the timer again when its callback is called
Rearmed == [on |-> TRUE, left |-> SYNC_INTERVAL_MS]

\* the callback of setInterval in startBackgroundSync
IntervalFire ==
    /\ syncTimer.on
    /\ syncTimer.left = 0
    /\ FreeSlots # {}
    /\ LET c == CHOOSE x \in FreeSlots : \A y \in FreeSlots : x <= y IN
       cyc' = [cyc EXCEPT ![c] = Started(1, FALSE)]
    /\ syncAttempts' = syncAttempts + 1
    /\ syncTimer' = Rearmed
    /\ UNCHANGED <<perf, hourCycle, flash, authorityUtcMs, perfNowAtSync, driftMs,
                   isSynced, appRunning, loopAlive, selectedTimezone, cueVars,
                   obs, run, nowLog, res, sinceFrame, allFailed>>

----------------------------------------------------------------------------
(* triggerFlash *)

\* the overlay (lit: it has the class flash) and the calls of triggerFlash
\* whose timers are pending, each with its count, its flashCount, where it is
\* (pc "lit": the removal is pending, "gap": the next doFlash is pending), the
\* time left on its timer, and whether the overlay has stayed lit since its
\* last doFlash; cut: the overlay went dark within the on-time of a
\* three-pulse flash; full: the on-times of three-pulse flashes that ended
\* with the overlay lit throughout; ended: a three-pulse flash has ended
NoFlash == [lit |-> FALSE, seqs |-> <<>>, cut |-> FALSE, full |-> 0,
            ended |-> FALSE]

\* sequence i taken out of the sequences
Without(seqs, i) ==
    [j \in 1..(Len(seqs) - 1) |-> IF j < i THEN seqs[j] ELSE seqs[j + 1]]

\* triggerFlash({count}): doFlash is called at once
TriggerFlash(f, count) ==
    [f EXCEPT !.lit = TRUE,
              !.seqs = Append(@, [count |-> count, flashCount |-> 1,
                                  pc |-> "lit", left |-> FLASH_DURATION_MS,
                                  whole |-> TRUE])]

\* dt later on the timers of the flash sequences
FlashElapse(f, dt) ==
    [f EXCEPT !.seqs = [j \in DOMAIN @ |->
                          [@[j] EXCEPT !.left = IF @ > dt THEN @ - dt ELSE 0]]]

----------------------------------------------------------------------------
(* DisplayManager *)

\* update(), one frame, the flashes it triggers left aside
FrameStep ==
    /\ appRunning
    /\ loopAlive
    /\ LET ms == GetCurrentUtcMs IN
       IF ms = NaN
       THEN \* formatToParts of an invalid Date throws: update() ends before
            \* it asks for the next frame
            /\ loopAlive' = FALSE
            /\ nowLog' = Read(ms)
            /\ UNCHANGED <<cueVars, obs, run, sinceFrame>>
       ELSE LET tz == selectedTimezone
                txt == UpdateUpcomingText(countdownMessageState, upcomingText,
                                          ms, tz, hourCycle)
                c == ProcessVisualCues([Cue EXCEPT !.txt = txt], ms, tz,
                                       hourCycle)
            IN /\ SetCue(c)
               /\ obs' = [sec |-> UtcSeconds(ms),
                          changed |-> UtcSeconds(ms) # obs.sec,
                          f1 |-> c.f1, f3 |-> c.f3, wrote |-> c.wrote,
                          defWrote |-> txt # upcomingText,
                          same |-> /\ c.lfs = lastFlashSecond
                                   /\ c.lcs = lastCountdownSecond
                                   /\ c.st = countdownMessageState]
               /\ sinceFrame' = 0
               /\ run' = RunAfter(UtcSeconds(ms))
               /\ nowLog' = Read(ms)
               /\ UNCHANGED loopAlive
    /\ UNCHANGED <<perf, hourCycle, syncVars, cyc, syncTimer, appRunning,
                   selectedTimezone, res, allFailed>>

\* update(), one frame; the timers of the flashes it triggers are not followed
Frame ==
    /\ FrameStep
    /\ UNCHANGED flash

\* update(), one frame, with the flash sequences it starts: the single pulse
\* of updateCountdown first, then the three pulses of processVisualCues
FlashFrame ==
    /\ FrameStep
    /\ GetCurrentUtcMs # NaN
    /\ LET single == IF obs'.f1 > 0 THEN TriggerFlash(flash, 1) ELSE flash
       IN flash' = IF obs'.f3 > 0 THEN TriggerFlash(single, 3) ELSE single

\* the callback that ends the on-time of sequence i: the classes are removed
\* from the overlay, and the next pulse, if one is left, is scheduled
FlashOff(i) ==
    /\ i \in DOMAIN flash.seqs
    /\ flash.seqs[i].pc = "lit"
    /\ flash.seqs[i].left = 0
    /\ LET q == flash.seqs[i]
           \* the sequences whose on-time this removal cuts short
           hit == {j \in DOMAIN flash.seqs :
                     /\ j # i
                     /\ flash.seqs[j].pc = "lit"
                     /\ flash.seqs[j].left > 0}
           marked == [j \in DOMAIN flash.seqs |->
                        IF j \in hit THEN [flash.seqs[j] EXCEPT !.whole = FALSE]
                        ELSE flash.seqs[j]]
           more == q.flashCount < q.count
           kept == IF more
                   THEN [marked EXCEPT ![i].pc = "gap",
                                       ![i].left = FLASH_INTERVAL_MS]
                   ELSE Without(marked, i)
       IN flash' = [flash EXCEPT
                      !.lit = FALSE,
                      !.seqs = kept,
                      !.cut = @ \/ \E j \in hit : flash.seqs[j].count = 3,
                      !.full = @ + (IF q.count = 3 /\ q.whole THEN 1 ELSE 0),
                      !.ended = @ \/ (q.count = 3 /\ ~more)]
    /\ UNCHANGED <<perf, hourCycle, syncVars, cyc, syncTimer, appRunning,
                   loopAlive, selectedTimezone, cueVars, sinceFrame, obs, run,
                   nowLog, res, allFailed>>

\* the callback that starts the next pulse of sequence i: doFlash
FlashOn(i) ==
    /\ i \in DOMAIN flash.seqs
    /\ flash.seqs[i].pc = "gap"
    /\ flash.seqs[i].left = 0
    /\ flash' = [flash EXCEPT
                   !.lit = TRUE,
                   !.seqs[i] = [@ EXCEPT !.pc = "lit",
                                         !.flashCount = @ + 1,
                                         !.left = FLASH_DURATION_MS,
                                         !.whole = TRUE]]
    /\ UNCHANGED <<perf, hourCycle, syncVars, cyc, syncTimer, appRunning,
                   loopAlive, selectedTimezone, cueVars, sinceFrame, obs, run,
                   nowLog, res, allFailed>>

\* the change listener of the zone selector
TzChange(tz) ==
    /\ appRunning
    /\ tz # selectedTimezone
    /\ selectedTimezone' = tz
    /\ IF IsInCountdownMode(countdownMessageState)
       THEN UNCHANGED <<upcomingText, nowLog>>
       ELSE LET ms == GetCurrentUtcMs IN
            /\ nowLog' = Read(ms)
            /\ upcomingText' = IF ms = NaN THEN upcomingText
                               ELSE DefaultText(ms, tz, hourCycle)
    /\ UNCHANGED <<perf, hourCycle, flash, syncVars, cyc, syncTimer, appRunning,
                   loopAlive, lastFlashSecond, lastCountdownSecond,
                   countdownMessageState, hackMessageTimeout, hackTimer, obs,
                   run, res, sinceFrame, allFailed>>

\* the callback of the HACK hold timer
HackTimerFire ==
    /\ hackTimer.on
    /\ hackTimer.left = 0
    /\ hackTimer' = NoTimer
    /\ IF countdownMessageState = "hack"
       THEN LET ms == GetCurrentUtcMs IN
            /\ countdownMessageState' = "null"
            /\ nowLog' = Read(ms)
            /\ IF ms = NaN
               THEN \* updateUpcomingTextNow throws: the callback ends early
                    UNCHANGED <<upcomingText, hackMessageTimeout>>
               ELSE /\ upcomingText' = DefaultText(ms, selectedTimezone,
                                                   hourCycle)
                    /\ hackMessageTimeout' = FALSE
       ELSE /\ hackMessageTimeout' = FALSE
            /\ UNCHANGED <<countdownMessageState, upcomingText, nowLog>>
    /\ UNCHANGED <<perf, hourCycle, flash, syncVars, cyc, syncTimer, appRunning,
                   loopAlive, selectedTimezone, lastFlashSecond,
                   lastCountdownSecond, obs, run, res, sinceFrame, allFailed>>

----------------------------------------------------------------------------
(* Time *)

ElapseBy(t, dt) == IF t.on /\ t.left > dt THEN [t EXCEPT !.left = @ - dt]
                   ELSE IF t.on THEN [t EXCEPT !.left = 0] ELSE t

Elapse(t) == ElapseBy(t, TickMs)

Due(t) == t.on /\ t.left = 0

\* dt passes with no handler running, up to the horizon; a timer that is
\* due fires first, a fetch that answers in time does so within MaxLatencyMs,
\* and the running frame loop is called again within MaxFrameGapMs
PassBy(dt, horizon) ==
    /\ perf + dt <= horizon
    /\ ~Due(hackTimer)
    /\ ~Due(syncTimer)
    /\ \A i \in DOMAIN flash.seqs : flash.seqs[i].left > 0
    /\ \A c \in DOMAIN cyc :
          /\ cyc[c].pc = "delay" => cyc[c].wait > 0
          /\ cyc[c].pc = "fetch" => cyc[c].wait < MaxLatencyMs
    /\ appRunning /\ loopAlive => sinceFrame + dt <= MaxFrameGapMs
    /\ perf' = perf + dt
    /\ sinceFrame' = IF appRunning /\ loopAlive THEN sinceFrame + dt ELSE 0
    /\ hackTimer' = ElapseBy(hackTimer, dt)
    /\ syncTimer' = ElapseBy(syncTimer, dt)
    /\ flash' = FlashElapse(flash, dt)
    /\ cyc' = [c \in DOMAIN cyc |->
                 IF cyc[c].pc = "delay"
                 THEN [cyc[c] EXCEPT !.wait = IF @ > dt THEN @ - dt ELSE 0]
                 ELSE IF cyc[c].pc = "fetch"
                 THEN [cyc[c] EXCEPT !.wait = @ + dt]
                 ELSE cyc[c]]
    /\ UNCHANGED <<hourCycle, syncVars, appRunning, loopAlive,
                   selectedTimezone, lastFlashSecond, lastCountdownSecond,
                   countdownMessageState, hackMessageTimeout, upcomingText,
                   obs, run, nowLog, res, allFailed>>

\* TickMs pass
Pass(horizon) == PassBy(TickMs, horizon)

Tick == Pass(MaxPerfMs)

\* the passage of time in the runs with overlapping syncs
LongTick == Pass(MaxOverlapPerfMs)

\* the passage of time in the runs that follow the flashes: the frame loop
\* is called at least every FlashTickMs
FlashTick ==
    /\ appRunning /\ loopAlive => sinceFrame = 0
    /\ PassBy(FlashTickMs, MaxFlashPerfMs)

----------------------------------------------------------------------------
(* The program *)

\* the page has loaded and initApp is at `await TimeSyncManager.init()`, whose
\* sync() is at its first fetch
Init ==
    /\ perf = 0
    /\ hourCycle \in {"h23", "h24"}
    /\ authorityUtcMs = 0
    /\ perfNowAtSync = 0
    /\ driftMs = 0
    /\ isSynced = FALSE
    /\ syncAttempts = 1
    /\ cyc = [c \in 1..MaxCycles |-> IF c = 1 THEN Started(1, TRUE) ELSE IdleCycle]
    /\ syncTimer = NoTimer
    /\ appRunning = FALSE
    /\ loopAlive = TRUE
    /\ selectedTimezone \in Zones
    /\ lastFlashSecond = -1
    /\ lastCountdownSecond = -1
    /\ countdownMessageState = "null"
    /\ hackMessageTimeout = FALSE
    /\ hackTimer = NoTimer
    /\ upcomingText = HtmlText
    /\ sinceFrame = 0
    /\ obs = [sec |-> -1, changed |-> FALSE, f1 |-> 0, f3 |-> 0,
              wrote |-> FALSE, defWrote |-> FALSE, same |-> TRUE]
    /\ run = 0
    /\ nowLog = [b |-> 0, have |-> FALSE, synced |-> FALSE, pair |-> FALSE,
                 ok |-> TRUE]
    /\ res = NoResult
    /\ allFailed = TRUE
    /\ flash = NoFlash

Next ==
    \/ \E c \in 1..MaxCycles, o \in Outcomes : SyncRespond(c, o)
    \/ \E c \in 1..MaxCycles : FetchHang(c)
    \/ \E c \in 1..MaxCycles : RetryFire(c)
    \/ IntervalFire
    \/ Frame
    \/ \E tz \in Zones : TzChange(tz)
    \/ HackTimerFire
    \/ Tick

Spec == Init /\ [][Next]_vars

\* What the browser guarantees: a frame that was requested is called, a timer
\* that is due fires, a fetch settles in time or counts as late, and time
\* passes.  No answer of an endpoint is guaranteed.
FairSpec ==
    /\ Spec
    /\ WF_vars(Frame)
    /\ WF_vars(HackTimerFire)
    /\ WF_vars(IntervalFire)
    /\ WF_vars(Tick)
    /\ \A c \in 1..MaxCycles :
          /\ WF_vars(RetryFire(c))
          /\ WF_vars(FetchHang(c) \/ \E o \in Outcomes : SyncRespond(c, o))

\* The runs in which sync() calls overlap: a background sync whose fetch is
\* late is still in flight when the interval fires again.  One zone, one hour
\* cycle, and endpoints that are unreachable or answer well.
OverlapOutcomes == {"neterr", "good"}

OverlapInit == Init /\ hourCycle = "h23" /\ selectedTimezone = "UTC"

OverlapNext ==
    \/ \E c \in 1..MaxCycles, o \in OverlapOutcomes : SyncRespond(c, o)
    \/ \E c \in 1..MaxCycles, o \in OverlapOutcomes : LateRespond(c, o)
    \/ \E c \in 1..MaxCycles : FetchHang(c)
    \/ IntervalFire
    \/ Frame
    \/ HackTimerFire
    \/ LongTick

OverlapSpec == OverlapInit /\ [][OverlapNext]_vars

\* The runs that follow the timers of the flashes, in steps of FlashTickMs,
\* from the load of the page through the first minute boundary: the page is
\* loaded at second 59, the first frame comes when init's sync() has returned.
FlashOutcomes == {"neterr", "good"}

FlashNext ==
    \/ \E c \in 1..MaxCycles, o \in FlashOutcomes : SyncRespond(c, o)
    \/ FlashFrame
    \/ \E i \in 1..MaxFlashes : FlashOff(i)
    \/ \E i \in 1..MaxFlashes : FlashOn(i)
    \/ FlashTick

FlashSpec == OverlapInit /\ [][FlashNext]_vars

----------------------------------------------------------------------------
(* The claims *)

\* C1: of two consecutive reads of getCurrentUtcMs with no sync writing the
\* anchor between them, the second is greater than or equal to the first.
C1_NowMonotone == nowLog.ok

\* C2: a frame triggers exactly one 3-pulse flash when the second it observes
\* is 0 or 30 and differs from the second the frame before it observed, and
\* none otherwise.
C2_FlashOnEdge ==
    obs.f3 = IF obs.sec \in {0, 30} /\ obs.changed THEN 1 ELSE 0

\* the frames followed 58, 59, 0 and the frame at 0 flashed
C2_Witness == run = Len(CountdownRun) /\ obs.sec = 0 /\ obs.f3 = 1

C4_HackHold ==
    [][countdownMessageState = "hack" =>
         /\ obs' # obs /\ obs'.sec \in 1..3 =>
              /\ countdownMessageState' = "hack"
              /\ upcomingText' = upcomingText
         /\ Due(hackTimer) /\ ~hackTimer'.on =>
              /\ countdownMessageState' = "null"
              /\ upcomingText'.k \in {"oneMinute", "thirty"}]_vars

\* C5: a step takes the stage out of HACK, or changes the line while the stage
\* is HACK, only if it is the hold timer firing.
C5_OnlyTimerEndsHack ==
    [][/\ countdownMessageState = "hack"
       /\ \/ countdownMessageState' # "hack"
          \/ upcomingText' # upcomingText
       => Due(hackTimer) /\ ~hackTimer'.on]_vars

\* C6: a frame that observes the same second as the frame before it triggers
\* no flash, writes nothing to the line from the cue scheduler and leaves
\* lastFlashSecond, lastCountdownSecond and the stage as they were.
C6_Idempotent ==
    ~obs.changed => obs.f1 = 0 /\ obs.f3 = 0 /\ ~obs.wrote /\ obs.same

\* a second frame in second 0, with the stage HACK
C6_Witness ==
    /\ ~obs.changed
    /\ obs.sec = 0
    /\ countdownMessageState = "hack"
    /\ lastCountdownSecond = 0

\* C7: as long as every endpoint has failed on every attempt, getCurrentUtcMs
\* follows the local clock, fetchAuthorityTime has not thrown and isSynced is
\* false.
C7_Degradation ==
    allFailed => /\ GetCurrentUtcMs = DateNow
                 /\ ~res.fetchThrew
                 /\ ~isSynced

\* C8: an attempt in which every endpoint was unreachable is followed by a
\* retry unless it is the third attempt of its cycle, and no cycle makes more
\* than 3 attempts.
C8_RetryOnTransportFailure ==
    /\ res.fallback => res.ret = "retry" \/ res.tries = MAX_SYNC_ATTEMPTS
    /\ \A c \in DOMAIN cyc : cyc[c].tries <= MAX_SYNC_ATTEMPTS

C10_FetchNeverFails ==
    /\ ~res.fetchThrew
    /\ res.fallback => res.value = res.wall

\* the last attempt met a failure of every endpoint and still ended
C10_Witness == res.fallback /\ res.ret = "true" /\ ~allFailed

\* a sync attempt of cycle c ends in this step
Ends(c) ==
    /\ cyc[c].pc \in {"fetch", "hung"}
    /\ cyc'[c].pc \in {"idle", "delay"}

\* C11: a sync attempt whose fetch fell back to the local clock, every endpoint
\* having failed, sets authorityUtcMs to Date.now() and perfNowAtSync to
\* performance.now() of that moment, driftMs to 0, isSynced to true and
\* syncAttempts to 0, and sync() returns true.
C11_FallbackIsSuccess ==
    [][\A c \in DOMAIN cyc :
         Ends(c) /\ res'.fallback =>
            /\ authorityUtcMs' = DateNow
            /\ perfNowAtSync' = perf
            /\ driftMs' = 0
            /\ isSynced'
            /\ syncAttempts' = 0
            /\ res'.ret = "true"
            /\ cyc'[c].pc = "idle"]_vars

\* no endpoint has ever answered, and the clock is synced on the local clock
C11_Witness ==
    /\ allFailed
    /\ res.fallback
    /\ res.ret = "true"
    /\ isSynced
    /\ syncAttempts = 0
    /\ authorityUtcMs = StartWallMs + perfNowAtSync

\* C12: authorityUtcMs and perfNowAtSync are always the fetched value and the
\* performance.now() of one and the same sync attempt, the last that ended, or
\* both their initial values; also when sync() calls overlap.
C12_SnapshotOfOneSync ==
    IF res.ret = "none"
    THEN authorityUtcMs = 0 /\ perfNowAtSync = 0
    ELSE authorityUtcMs = res.value /\ perfNowAtSync = res.at

\* a sync ended while another sync() call was in flight, and getCurrentUtcMs
\* was read after it
C12_Witness ==
    /\ res.overlap
    /\ res.ret = "true"
    /\ nowLog.have
    /\ ~nowLog.synced
    /\ perf > res.at

\* C13: after a sync that succeeded at performance.now() = m with fetched
\* value F, a read of getCurrentUtcMs at m' before the next sync attempt ends
\* returns F + (m' - m), and driftMs is 0.
C13_NowFormula ==
    [][/\ nowLog' # nowLog
       /\ nowLog'.have
       /\ ~nowLog'.synced
       /\ res.ret = "true"
       => /\ nowLog'.b = res.value + (perf - res.at)
          /\ driftMs = 0]_vars

\* the last sync set the clock back, time has passed since, and the read made
\* now gave the value of the formula
C13_Witness ==
    /\ res.ret = "true"
    /\ res.back
    /\ perf > res.at
    /\ nowLog.have
    /\ ~nowLog.synced
    /\ nowLog.b = res.value + (perf - res.at)

\* C14: for the present instant and every zone, getNextMinuteInTimezone gives
\* the hour and minute of getTimeComponentsInTimezone one minute later, with
\* the hour in 0..23 and the minute in 0..59.
C14_NextMinute ==
    GetCurrentUtcMs # NaN =>
      \A tz \in Zones :
         LET nextMinute == GetNextMinuteInTimezone(GetCurrentUtcMs, tz, hourCycle)
             components == GetTimeComponentsInTimezone(GetCurrentUtcMs + 60000,
                                                       tz, hourCycle)
         IN /\ nextMinute.hour = components.hour
            /\ nextMinute.minute = components.minute
            /\ nextMinute.hour \in 0..23
            /\ nextMinute.minute \in 0..59

\* C15: a frame is eventually evaluated, whatever the endpoints do (the runs
\* cut by the bound on attempts left aside).
C15_FramesRun ==
    <>(obs.sec >= 0 \/ \E c \in DOMAIN cyc : cyc[c].tries = MaxTries)

\* C16: while the stage is standby, countdown or hack, updateUpcomingText
\* leaves the line as it is, whether a frame calls it or a change of the zone
\* (the hold timer's callback calls it only after it has set the stage to
\* null).
C16_DefaultTextSuppressed ==
    [][countdownMessageState # "null" =>
         /\ obs' # obs => ~obs'.defWrote
         /\ selectedTimezone' # selectedTimezone => upcomingText' = upcomingText]_vars

\* a second frame in a second of the standby stage
C16_Witness ==
    /\ countdownMessageState = "standby"
    /\ obs.sec \in 50..54
    /\ ~obs.changed
    /\ ~obs.defWrote
    /\ upcomingText = StandbyText

\* C17: the endpoint a fetch is at is asked only after every endpoint ranked
\* before it failed in that fetch; the value returned is that of the first
\* endpoint that answered, and the fallback is taken only after all failed.
C17_EndpointOrder ==
    /\ \A c \in DOMAIN cyc :
          cyc[c].pc \in {"fetch", "hung"} => cyc[c].failed = cyc[c].api - 1
    /\ res.src > 0 => res.failed = res.src - 1
    /\ res.fallback => res.failed = Len(TIME_APIS)

\* the second endpoint's answer was returned after the first had failed
C17_Witness == res.src = 2 /\ res.failed = 1 /\ res.ret = "true"

\* C18: the value fetchAuthorityTime returns, and so authorityUtcMs, is
\* always an instant: it is never NaN.
C18_ValidInstant == res.value # NaN /\ authorityUtcMs # NaN

\* C19: a frame that observes a second of the window (50..59, 0) triggers one
\* single-pulse flash and one write of the line if that second differs from
\* the one the frame before observed, and neither otherwise.
C19_OncePerSecond ==
    obs.sec \in 50..59 \cup {0} =>
       /\ obs.f1 = IF obs.changed THEN 1 ELSE 0
       /\ obs.wrote = obs.changed

\* a later frame within second 59, after the frame that wrote the digit 1
C19_Witness ==
    /\ obs.sec = 59
    /\ ~obs.changed
    /\ obs.f1 = 0
    /\ lastCountdownSecond = 59
    /\ upcomingText = DigitText(1)

\* C20: a frame that observes a second in 1..49 leaves lastCountdownSecond at
\* -1, turns a standby or countdown stage into null and leaves a hack stage.
C20_OutsideWindowReset ==
    [][obs' # obs /\ obs'.sec \in 1..49 =>
         /\ lastCountdownSecond' = -1
         /\ countdownMessageState \in {"standby", "countdown"}
              => countdownMessageState' = "null"
         /\ countdownMessageState = "hack" => countdownMessageState' = "hack"]_vars

\* a frame outside the window has just reset the stage: the line still shows
\* the digit or the standby text of the stage it ended
C20_Witness ==
    /\ obs.sec \in 1..49
    /\ obs.changed
    /\ countdownMessageState = "null"
    /\ lastCountdownSecond = -1
    /\ upcomingText.k \in {"digit", "standby"}

C22_FreshRetryBudget ==
    [][\A c \in DOMAIN cyc :
         cyc[c].pc = "idle" /\ cyc'[c].pc = "fetch" => syncAttempts = 0]_vars

\* C26: at most one sync() call is in flight (waiting for a fetch or for its
\* retry delay) at any time.
C26_OneCycleInFlight ==
    Cardinality({c \in DOMAIN cyc : cyc[c].pc # "idle"}) <= 1

\* the line agrees with the stage
TextAgrees ==
    CASE countdownMessageState = "null" ->
           /\ GetCurrentUtcMs # NaN
           /\ upcomingText = DefaultText(GetCurrentUtcMs, selectedTimezone,
                                         hourCycle)
      [] countdownMessageState = "standby" -> upcomingText = StandbyText
      [] countdownMessageState = "countdown" ->
           upcomingText = DigitText(60 - lastCountdownSecond)
      [] countdownMessageState = "hack" -> upcomingText.k = "hack"

\* C24: at the end of every frame the line agrees with the stage: the default
\* text under null, TEN SECONDS, STANDBY under standby, the digit
\* 60 - lastCountdownSecond under countdown, the HACK message under hack.
C24_TextAgreesWithStage == [][obs' # obs => TextAgrees']_vars

\* C25: while the stage is hack the hold timer is pending and
\* hackMessageTimeout is set.
C25_HackHasTimer ==
    countdownMessageState = "hack" => hackMessageTimeout /\ hackTimer.on

\* the stage is hack three seconds into the minute, with the timer running
C25_Witness ==
    /\ countdownMessageState = "hack"
    /\ obs.sec = 3
    /\ hackTimer.on
    /\ hackTimer.left < HACK_HOLD_MS

\* C27: lastFlashSecond is -1, 0 or 30, lastCountdownSecond is -1, 0 or in
\* 50..59, in 50..54 while the stage is standby and in 55..59 while it is
\* countdown.
C27_CueStateRanges ==
    /\ lastFlashSecond \in {-1, 0, 30}
    /\ lastCountdownSecond \in {-1, 0} \cup 50..59
    /\ countdownMessageState = "standby" => lastCountdownSecond \in 50..54
    /\ countdownMessageState = "countdown" => lastCountdownSecond \in 55..59

\* a frame at second 30 has flashed, outside the countdown window
C27_Witness ==
    /\ obs.sec = 30
    /\ lastFlashSecond = 30
    /\ lastCountdownSecond = -1
    /\ countdownMessageState = "null"

\* C23: the overlay never goes dark within the on-time of a three-pulse
\* flash, and when a three-pulse flash has ended it has had three on-times with
\* the overlay lit throughout, and the overlay is dark once no flash runs.
C23_ThreeFullPulses ==
    /\ ~flash.cut
    /\ flash.ended => flash.full = 3
    /\ flash.seqs = <<>> => ~flash.lit

====
